---- MODULE Spec2Model ----
(***************************************************************************)
(* Model of the throbbers-server relay (src/index.js): the /artist-info,   *)
(* /record-votes, /throb-count and /clear-sheet handlers over the Firebase *)
(* key-value store and the Google Sheets ledger.                           *)
(*                                                                         *)
(* Strings the code transforms (artist names, vote values, timestamps) are *)
(* sequences of one-character strings, so that safeKey, trim and           *)
(* toLowerCase are computed character by character.  Participant ids and   *)
(* header cells are only ever compared for equality and are plain strings. *)
(* The track columns of the ARTISTS sheet flow only into the `tracks`      *)
(* field of the /artist-info response and are left out.                    *)
(***************************************************************************)
EXTENDS Integers, Sequences, FiniteSets, TLC

VARIABLES
    artistsSheet,   \* ARTISTS!B1:L, column B: the header cell then one cell per row
    dbArtistOrder,  \* KV artistOrder: a sequence of entries, <<>> when absent
    dbArtistNames,  \* KV artistNames: safeKey -> display name, <<>> when absent
    dbVotes,        \* KV votes/<safeKey>: safeKey -> VoteRecord
    dbGuests,       \* KV guests: set of participant ids
    dbHost,         \* KV host: set of participant ids
    votesSheet,     \* VOTES!A1:Z: [header |-> row 1 (<<>> when empty), rows |-> data rows]
    req,            \* per client: the handler invocation in flight, or its response
    now,            \* the wall clock: it ticks between any two /record-votes requests
    orderWrites,    \* history: number of writes to artistOrder
    namesWrites,    \* history: number of writes to artistNames
    firstOrder,     \* history: the order returned by the first successful /artist-info
    okSinceClear    \* history: successful /record-votes since the last clear

vars == <<artistsSheet, dbArtistOrder, dbArtistNames, dbVotes, dbGuests, dbHost,
          votesSheet, req, now, orderWrites,
          namesWrites, firstOrder, okSinceClear>>

-----------------------------------------------------------------------------
(* Bounds *)

\* POST /record-votes requests with a valid payload in one behaviour
MaxPosts == 2

Clients == {"c1", "c2"}

-----------------------------------------------------------------------------
(* Strings *)

ARTIST == <<"A", "R", "T", "I", "S", "T">>
YES == <<"y", "e", "s">>
NO == <<"n", "o">>

\* index.js:158-160  name.replace(/[.#$/\[\]]/g, '_')
safeKey(name) ==
    [i \in 1..Len(name) |->
        IF name[i] \in {".", "#", "$", "/", "[", "]"} THEN "_" ELSE name[i]]

\* String.prototype.trim: strips white space at both ends
RECURSIVE TrimLeft(_)
TrimLeft(s) == IF s # <<>> /\ Head(s) = " " THEN TrimLeft(Tail(s)) ELSE s

RECURSIVE TrimRight(_)
TrimRight(s) ==
    IF s # <<>> /\ s[Len(s)] = " " THEN TrimRight(SubSeq(s, 1, Len(s) - 1)) ELSE s

trim(s) == TrimRight(TrimLeft(s))

\* String.prototype.toLowerCase on the letters the model uses
LowerChar(c) ==
    CASE c = "Y" -> "y"
      [] c = "E" -> "e"
      [] c = "S" -> "s"
      [] c = "N" -> "n"
      [] c = "O" -> "o"
      [] OTHER -> c

toLowerCase(s) == [i \in 1..Len(s) |-> LowerChar(s[i])]

\* Date.prototype.toISOString of the clock value t
Digit == <<"0", "1", "2", "3", "4", "5", "6", "7", "8", "9">>
toISOString(t) == <<"T", Digit[(t \div 10) + 1], Digit[(t % 10) + 1]>>

\* Array.prototype.sort on participant ids (code-unit order of the ids used)
Rank(u) == CASE u = "Q" -> 1 [] u = "X" -> 2 [] u = "Y" -> 3 [] OTHER -> 0

RECURSIVE SortedKeys(_)
SortedKeys(S) ==
    IF S = {} THEN <<>>
    ELSE LET m == CHOOSE u \in S : \A v \in S : Rank(u) <= Rank(v)
         IN <<m>> \o SortedKeys(S \ {m})

Range(s) == {s[i] : i \in DOMAIN s}

-----------------------------------------------------------------------------
(* The ARTISTS sheet and the values derived from it *)

\* index.js:170-178  the two throws of fetchGoogleSheet
FetchOK == Len(artistsSheet) >= 2 /\ trim(artistsSheet[1]) = ARTIST

\* index.js:180-198  rows.slice(1).map(...).filter(Boolean)
RECURSIVE MapRows(_)
MapRows(rows) ==
    IF rows = <<>> THEN <<>>
    ELSE LET artist == trim(Head(rows))
         IN (IF artist = <<>> THEN <<>>
             ELSE <<[artist |-> artist, safe |-> safeKey(artist)]>>)
            \o MapRows(Tail(rows))

fetchGoogleSheet == MapRows(Tail(artistsSheet))

\* index.js:294-298  artistList.push(row.safe)
artistList == [i \in 1..Len(fetchGoogleSheet) |-> fetchGoogleSheet[i].safe]

\* index.js:294-298  artistNames[row.safe] = row.artist: the last row of a key wins
LastRowOf(k) ==
    CHOOSE i \in 1..Len(fetchGoogleSheet) :
        /\ fetchGoogleSheet[i].safe = k
        /\ \A j \in 1..Len(fetchGoogleSheet) : fetchGoogleSheet[j].safe = k => j <= i

artistNames == [k \in Range(artistList) |-> fetchGoogleSheet[LastRowOf(k)].artist]

\* An artistOrder entry: a plain safeKey string, as index.js:306 writes it, or a
\* {safe, original} object, which index.js:55-58 reads
KeyEntry(k) == [obj |-> FALSE, safe |-> k, original |-> <<>>]
PairEntry(k, n) == [obj |-> TRUE, safe |-> k, original |-> n]

\* index.js:306  [...artistList].sort(() => 0.5 - Math.random()): some reordering
Bijections(n) ==
    {f \in [1..n -> 1..n] : \A i, j \in 1..n : f[i] = f[j] => i = j}

Shuffles(list) ==
    {[i \in 1..Len(list) |-> KeyEntry(list[f[i]])] : f \in Bijections(Len(list))}

-----------------------------------------------------------------------------
(* Handler invocations *)

IdleReq ==
    [pc |-> "idle", kind |-> "none", body |-> <<>>, artist |-> <<>>, votes |-> <<>>,
     ts |-> 0,
     order |-> <<>>, original |-> <<>>, users |-> <<>>, hasHeaders |-> FALSE,
     status |-> 0, host |-> "", count |-> 0, at |-> "", after |-> FALSE,
     wrote |-> FALSE]

Free(c) == req[c].pc \in {"idle", "done"}

\* Clients are interchangeable: a new request takes c1 unless c1 is in flight
CanStart(c) == Free(c) /\ (c = "c1" \/ ~Free("c1"))

\* res.status(s).json(...): the invocation ends; the response is kept, with the
\* call the handler was at and the submission it answers (history)
Response(r, s, order) ==
    [IdleReq EXCEPT !.pc = "done", !.kind = r.kind, !.status = s, !.order = order,
                    !.artist = r.artist, !.ts = r.ts, !.at = r.pc, !.after = r.after,
                    !.wrote = r.wrote]

ledgerUnchanged == UNCHANGED <<votesSheet, okSinceClear>>
rosterUnchanged == UNCHANGED <<artistsSheet, dbGuests, dbHost>>

-----------------------------------------------------------------------------
(* GET /artist-info, index.js:287-322 *)

\* index.js:287-289  the request arrives and fetchGoogleSheet is called
ArtistInfoStart(c) ==
    /\ CanStart(c)
    /\ req' = [req EXCEPT ![c] =
                  [IdleReq EXCEPT !.pc = "ai_fetch", !.kind = "artist-info",
                                  !.after = (firstOrder # <<>>)]]
    /\ UNCHANGED <<dbArtistOrder, dbArtistNames, dbVotes, now, orderWrites,
                   namesWrites, firstOrder>>
    /\ ledgerUnchanged /\ rosterUnchanged

\* index.js:163-205, 289-302  the sheet is read; a bad sheet throws
ArtistInfoFetch(c) ==
    /\ req[c].pc = "ai_fetch"
    /\ req' = [req EXCEPT ![c] =
                  IF FetchOK THEN [@ EXCEPT !.pc = "ai_readOrder"]
                  ELSE Response(@, 500, <<>>)]
    /\ UNCHANGED <<dbArtistOrder, dbArtistNames, dbVotes, now, orderWrites,
                   namesWrites, firstOrder>>
    /\ ledgerUnchanged /\ rosterUnchanged

\* ArtistInfoReadOrder without the test of index.js:305: an order is drawn and
\* written on every call
ArtistInfoReadOrderAlways(c) ==
    /\ req[c].pc = "ai_readOrder"
    /\ \E o \in Shuffles(artistList) :
           req' = [req EXCEPT ![c] = [@ EXCEPT !.pc = "ai_setOrder", !.order = o]]
    /\ UNCHANGED <<dbArtistOrder, dbArtistNames, dbVotes, now, orderWrites,
                   namesWrites, firstOrder>>
    /\ ledgerUnchanged /\ rosterUnchanged

\* index.js:302-306, 312-316  artistOrder is read; when it is missing or empty a
\* shuffled order is drawn and its write issued, otherwise the response is sent
ArtistInfoReadOrder(c) ==
    /\ req[c].pc = "ai_readOrder"
    /\ \/ /\ dbArtistOrder = <<>>
          /\ \E o \in Shuffles(artistList) :
                 req' = [req EXCEPT ![c] = [@ EXCEPT !.pc = "ai_setOrder", !.order = o]]
          /\ UNCHANGED firstOrder
       \/ /\ dbArtistOrder # <<>>
          /\ req' = [req EXCEPT ![c] = Response(@, 200, dbArtistOrder)]
          /\ firstOrder' = IF firstOrder = <<>> THEN <<dbArtistOrder>> ELSE firstOrder
    /\ UNCHANGED <<dbArtistOrder, dbArtistNames, dbVotes, now, orderWrites,
                   namesWrites>>
    /\ ledgerUnchanged /\ rosterUnchanged

\* index.js:307  await artistOrderRef.set(artistOrder)
ArtistInfoSetOrder(c) ==
    /\ req[c].pc = "ai_setOrder"
    /\ dbArtistOrder' = req[c].order
    /\ orderWrites' = orderWrites + 1
    /\ req' = [req EXCEPT ![c] = [@ EXCEPT !.pc = "ai_setNames", !.wrote = TRUE]]
    /\ UNCHANGED <<dbArtistNames, dbVotes, now, namesWrites, firstOrder>>
    /\ ledgerUnchanged /\ rosterUnchanged

\* index.js:308-316  await db.ref('artistNames').set(artistNames), then the response
ArtistInfoSetNames(c) ==
    /\ req[c].pc = "ai_setNames"
    /\ dbArtistNames' = artistNames
    /\ namesWrites' = namesWrites + 1
    /\ req' = [req EXCEPT ![c] = Response([req[c] EXCEPT !.wrote = TRUE], 200, req[c].order)]
    /\ firstOrder' = IF firstOrder = <<>> THEN <<req[c].order>> ELSE firstOrder
    /\ UNCHANGED <<dbArtistOrder, dbVotes, now, orderWrites>>
    /\ ledgerUnchanged /\ rosterUnchanged

\* index.js:318-321  an outbound call rejects: 500, nothing is undone
ArtistInfoFail(c) ==
    /\ req[c].pc \in {"ai_fetch", "ai_readOrder", "ai_setOrder", "ai_setNames"}
    /\ req' = [req EXCEPT ![c] = Response(@, 500, <<>>)]
    /\ UNCHANGED <<dbArtistOrder, dbArtistNames, dbVotes, now, orderWrites,
                   namesWrites, firstOrder>>
    /\ ledgerUnchanged /\ rosterUnchanged

-----------------------------------------------------------------------------
(* POST /record-votes, index.js:208-284 *)

HostIds == {"X"}
GuestIds == {"Y"}

\* Request bodies.  artist: given or not, and its string.  votes: its JavaScript
\* kind and, for an object or an array, its own properties (an array's are its
\* indices).
Body(given, artist, kind, votes) ==
    [given |-> given, artist |-> artist, kind |-> kind, votes |-> votes]

BALLOT == <<" ", "Y", "e", "s">>

\* The bodies clients send.  Accepted by index.js:212: a key of the sheet with an
\* object holding a roster id or an unknown id, or with an array.  The others:
\* artist absent or empty, votes absent or a string.
Bodies ==
    { Body(TRUE, k, v[1], v[2]) :
        k \in {<<"A", "_">>, <<"C">>},
        v \in { <<"object", [u \in {"X"} |-> BALLOT]>>,
                <<"object", [u \in {"Q"} |-> YES]>>,
                <<"array", [u \in {"0"} |-> YES]>> } }
    \cup
    { Body(FALSE, <<>>, "object", [u \in {"X"} |-> BALLOT]),
      Body(TRUE, <<>>, "object", <<>>),
      Body(TRUE, <<"C">>, "undefined", <<>>),
      Body(TRUE, <<"C">>, "string", <<>>) }

\* The bodies of the interleaved runs: one artist, two ballots, one invalid body
FewBodies ==
    { Body(TRUE, <<"A", "_">>, "object", [u \in {"X"} |-> BALLOT]),
      Body(TRUE, <<"A", "_">>, "object", [u \in {"Q"} |-> YES]),
      Body(TRUE, <<>>, "object", <<>>) }

\* The bodies of the runs about names: a key two names share, a key of one name,
\* a key of no name
NameBodies ==
    {Body(TRUE, k, "object", [u \in {"X"} |-> YES]) : k \in {<<"A", "_">>, <<"C">>, <<"Z">>}}

\* index.js:212  !safeArtist || !votes || typeof votes !== 'object'
Rejected(body) ==
    \/ ~body.given \/ body.artist = <<>>
    \/ body.kind = "undefined"
    \/ body.kind \notin {"object", "array"}

\* index.js:208-214  an invalid payload is answered 400 before any outbound call
RecordVotesInvalid(c, body) ==
    /\ CanStart(c)
    /\ Rejected(body)
    /\ req' = [req EXCEPT ![c] =
                  Response([IdleReq EXCEPT !.kind = "record-votes"], 400, <<>>)]
    /\ UNCHANGED <<dbArtistOrder, dbArtistNames, dbVotes, now, orderWrites,
                   namesWrites, firstOrder>>
    /\ ledgerUnchanged /\ rosterUnchanged

\* index.js:210-219  a valid payload: the timestamp is taken, artistOrder is asked for
RecordVotesStart(c, body) ==
    /\ CanStart(c)
    /\ ~Rejected(body)
    /\ now < MaxPosts
    /\ now' = now + 1
    /\ req' = [req EXCEPT ![c] =
                  [IdleReq EXCEPT !.pc = "rv_readOrder", !.kind = "record-votes",
                                  !.body = body, !.artist = body.artist,
                                  !.votes = body.votes, !.ts = now']]
    /\ UNCHANGED <<dbArtistOrder, dbArtistNames, dbVotes, orderWrites, namesWrites,
                   firstOrder>>
    /\ ledgerUnchanged /\ rosterUnchanged

\* index.js:55-57  artistOrder.find(entry => typeof entry === 'object' && entry.safe === k)
RECURSIVE Find(_, _)
Find(order, k) ==
    IF order = <<>> THEN <<>>
    ELSE IF Head(order).obj /\ Head(order).safe = k THEN <<Head(order)>>
    ELSE Find(Tail(order), k)

\* index.js:58  found?.original is truthy
FoundOriginal(order, k) == Find(order, k) # <<>> /\ Find(order, k)[1].original # <<>>

\* index.js:62-63  artistNames[safeKeyName] || safeKeyName
FromNames(names, k) == IF k \in DOMAIN names /\ names[k] # <<>> THEN names[k] ELSE k

\* index.js:54-64  the name getOriginalArtistName returns for the values it reads
getOriginalArtistName(k, order, names) ==
    IF FoundOriginal(order, k) THEN Find(order, k)[1].original ELSE FromNames(names, k)

\* index.js:219-222, 55-61  artistOrder arrives; the name is taken from it, or
\* artistNames is asked for
RecordVotesReadOrder(c) ==
    /\ req[c].pc = "rv_readOrder"
    /\ req' = [req EXCEPT ![c] =
                  IF FoundOriginal(dbArtistOrder, req[c].artist)
                  THEN [@ EXCEPT !.pc = "rv_readRoster",
                                 !.original = Find(dbArtistOrder, req[c].artist)[1].original]
                  ELSE [@ EXCEPT !.pc = "rv_readNames"]]
    /\ UNCHANGED <<dbArtistOrder, dbArtistNames, dbVotes, now, orderWrites,
                   namesWrites, firstOrder>>
    /\ ledgerUnchanged /\ rosterUnchanged

\* index.js:61-63, 222-227  artistNames arrives; guests and host are asked for
RecordVotesReadNames(c) ==
    /\ req[c].pc = "rv_readNames"
    /\ req' = [req EXCEPT ![c] =
                  [@ EXCEPT !.pc = "rv_readRoster",
                            !.original = FromNames(dbArtistNames, req[c].artist)]]
    /\ UNCHANGED <<dbArtistOrder, dbArtistNames, dbVotes, now, orderWrites,
                   namesWrites, firstOrder>>
    /\ ledgerUnchanged /\ rosterUnchanged

\* index.js:231  Object.keys({ ...guestList, ...hostList }).sort()
allUsers == SortedKeys(dbGuests \cup dbHost)

\* FillVotes as the revisions without roster filling have it: votes left as sent
FillVotesSparse(votes, users) == votes

\* index.js:233-238  for (const user of allUsers) if (!(user in votes)) votes[user] = 'no'
FillVotes(votes, users) ==
    [u \in (DOMAIN votes) \cup Range(users) |->
        IF u \in DOMAIN votes THEN votes[u] ELSE NO]

\* index.js:224-244  the roster arrives, missing votes are filled in, the record's
\* write is issued
RecordVotesReadRoster(c) ==
    /\ req[c].pc = "rv_readRoster"
    /\ req' = [req EXCEPT ![c] =
                  [@ EXCEPT !.pc = "rv_setVotes", !.users = allUsers,
                            !.votes = FillVotes(req[c].votes, allUsers)]]
    /\ UNCHANGED <<dbArtistOrder, dbArtistNames, dbVotes, now, orderWrites,
                   namesWrites, firstOrder>>
    /\ ledgerUnchanged /\ rosterUnchanged

\* index.js:240-244  the value written to votes/<safeArtist>
VoteRecord(r) ==
    [originalName |-> r.original, votes |-> r.votes, timestamp |-> toISOString(r.ts)]

\* RecordVotesSetVotes as an update that merges into the record there is: votes
\* of an earlier submission that the new one lacks are kept
RecordVotesSetVotesMerge(c) ==
    /\ req[c].pc = "rv_setVotes"
    /\ LET a == req[c].artist
           new == VoteRecord(req[c])
           old == IF a \in DOMAIN dbVotes THEN dbVotes[a].votes ELSE <<>>
       IN dbVotes' = (a :> [new EXCEPT !.votes = new.votes @@ old]) @@ dbVotes
    /\ req' = [req EXCEPT ![c] = [@ EXCEPT !.pc = "rv_getHeader"]]
    /\ UNCHANGED <<dbArtistOrder, dbArtistNames, now, orderWrites,
                   namesWrites, firstOrder>>
    /\ ledgerUnchanged /\ rosterUnchanged

\* index.js:240-253  db.ref(`votes/${safeArtist}`).set(...), then row 1 is asked for
RecordVotesSetVotes(c) ==
    /\ req[c].pc = "rv_setVotes"
    /\ dbVotes' = (req[c].artist :> VoteRecord(req[c])) @@ dbVotes
    /\ req' = [req EXCEPT ![c] = [@ EXCEPT !.pc = "rv_getHeader"]]
    /\ UNCHANGED <<dbArtistOrder, dbArtistNames, now, orderWrites,
                   namesWrites, firstOrder>>
    /\ ledgerUnchanged /\ rosterUnchanged

\* index.js:246  ['TIMESTAMP', 'ARTIST', ...allUsers]
headers(users) == <<"TIMESTAMP", "ARTIST">> \o users

\* index.js:247  [timestamp, originalArtist, ...allUsers.map(name => votes[name])]
row(r) ==
    <<toISOString(r.ts), r.original>> \o [i \in 1..Len(r.users) |-> r.votes[r.users[i]]]

\* index.js:250-256  VOTES!A1:Z1 arrives: hasHeaders
RecordVotesGetHeader(c) ==
    /\ req[c].pc = "rv_getHeader"
    /\ req' = [req EXCEPT ![c] =
                  [@ EXCEPT !.pc = IF votesSheet.header # <<>> THEN "rv_append"
                                   ELSE "rv_setHeader",
                            !.hasHeaders = (votesSheet.header # <<>>)]]
    /\ UNCHANGED <<dbArtistOrder, dbArtistNames, dbVotes, now, orderWrites,
                   namesWrites, firstOrder>>
    /\ ledgerUnchanged /\ rosterUnchanged

\* index.js:256-265  the header row is written at VOTES!A1
RecordVotesSetHeader(c) ==
    /\ req[c].pc = "rv_setHeader"
    /\ votesSheet' = [votesSheet EXCEPT !.header = headers(req[c].users)]
    /\ req' = [req EXCEPT ![c] = [@ EXCEPT !.pc = "rv_append"]]
    /\ UNCHANGED <<dbArtistOrder, dbArtistNames, dbVotes, now, orderWrites,
                   namesWrites, firstOrder, okSinceClear>>
    /\ rosterUnchanged

\* RecordVotesAppend as an upsert keyed by the artist column: the last row of
\* the artist is replaced when there is one
RecordVotesUpsert(c) ==
    /\ req[c].pc = "rv_append"
    /\ LET rows == votesSheet.rows
           same == {i \in 1..Len(rows) : rows[i][2] = req[c].original}
       IN votesSheet' =
              [votesSheet EXCEPT !.rows =
                  IF same = {} THEN Append(rows, row(req[c]))
                  ELSE [rows EXCEPT ![CHOOSE i \in same : \A j \in same : j <= i] =
                            row(req[c])]]
    /\ okSinceClear' = okSinceClear + 1
    /\ req' = [req EXCEPT ![c] = Response(@, 200, <<>>)]
    /\ UNCHANGED <<dbArtistOrder, dbArtistNames, dbVotes, now, orderWrites,
                   namesWrites, firstOrder>>
    /\ rosterUnchanged

\* index.js:267-278  the row is appended below the table, then 200
RecordVotesAppend(c) ==
    /\ req[c].pc = "rv_append"
    /\ votesSheet' = [votesSheet EXCEPT !.rows = Append(@, row(req[c]))]
    /\ okSinceClear' = okSinceClear + 1
    /\ req' = [req EXCEPT ![c] = Response(@, 200, <<>>)]
    /\ UNCHANGED <<dbArtistOrder, dbArtistNames, dbVotes, now, orderWrites,
                   namesWrites, firstOrder>>
    /\ rosterUnchanged

\* RecordVotesFail with compensation: the record written for the artist is
\* removed when a later call rejects
RecordVotesFailRollback(c) ==
    /\ req[c].pc \in {"rv_readOrder", "rv_readNames", "rv_readRoster", "rv_setVotes",
                      "rv_getHeader", "rv_setHeader", "rv_append"}
    /\ req' = [req EXCEPT ![c] = Response(@, 500, <<>>)]
    /\ dbVotes' = IF req[c].pc \in {"rv_getHeader", "rv_setHeader", "rv_append"}
                  THEN [a \in DOMAIN dbVotes \ {req[c].artist} |-> dbVotes[a]]
                  ELSE dbVotes
    /\ UNCHANGED <<dbArtistOrder, dbArtistNames, now, orderWrites,
                   namesWrites, firstOrder>>
    /\ ledgerUnchanged /\ rosterUnchanged

\* index.js:280-283  an outbound call rejects: 500, nothing is undone
RecordVotesFail(c) ==
    /\ req[c].pc \in {"rv_readOrder", "rv_readNames", "rv_readRoster", "rv_setVotes",
                      "rv_getHeader", "rv_setHeader", "rv_append"}
    /\ req' = [req EXCEPT ![c] = Response(@, 500, <<>>)]
    /\ UNCHANGED <<dbArtistOrder, dbArtistNames, dbVotes, now, orderWrites,
                   namesWrites, firstOrder>>
    /\ ledgerUnchanged /\ rosterUnchanged

-----------------------------------------------------------------------------
(* GET /throb-count, index.js:324-357 *)

HostParams == {"", "X", "Y", "Z"}

\* index.js:337  response.data.values || []: the API returns the rows down to the
\* last one that holds a value
values == IF votesSheet.header = <<>> /\ votesSheet.rows = <<>> THEN <<>>
          ELSE <<votesSheet.header>> \o votesSheet.rows

\* index.js:338  rows[0] || []
headerRow == IF values = <<>> THEN <<>> ELSE values[1]

\* index.js:341  headerRow.indexOf(host): 0-based, -1 when absent
indexOf(cells, x) ==
    IF \E i \in 1..Len(cells) : cells[i] = x
    THEN (CHOOSE i \in 1..Len(cells) :
              cells[i] = x /\ \A j \in 1..(i - 1) : cells[j] # x) - 1
    ELSE -1

\* IsYes without trim and toLowerCase: the cell is compared as it stands
IsYesExact(cells, columnIndex) ==
    /\ columnIndex + 1 <= Len(cells)
    /\ cells[columnIndex + 1] = YES

\* index.js:348-349  typeof v === 'string' && v.trim().toLowerCase() === 'yes'
IsYes(cells, columnIndex) ==
    /\ columnIndex + 1 <= Len(cells)
    /\ toLowerCase(trim(cells[columnIndex + 1])) = YES

\* index.js:347-350  rows.slice(1).map(...).filter(...).length
RECURSIVE CountYes(_, _)
CountYes(rows, columnIndex) ==
    IF rows = <<>> THEN 0
    ELSE (IF IsYes(Head(rows), columnIndex) THEN 1 ELSE 0)
         + CountYes(Tail(rows), columnIndex)

\* index.js:325-352  the status and the count computed from the range read
ThrobCountStatus(host) ==
    IF host = "" THEN 400 ELSE IF indexOf(headerRow, host) = -1 THEN 404 ELSE 200

yesCount(host) == CountYes(Tail(values), indexOf(headerRow, host))

\* index.js:324-352  the whole handler: one read of VOTES!A1:Z, then the response
ThrobCount(c, host) ==
    /\ CanStart(c)
    /\ req' = [req EXCEPT ![c] =
                  [Response([IdleReq EXCEPT !.kind = "throb-count"],
                            ThrobCountStatus(host), <<>>)
                     EXCEPT !.host = host,
                            !.count = IF ThrobCountStatus(host) = 200
                                      THEN yesCount(host) ELSE 0]]
    /\ UNCHANGED <<dbArtistOrder, dbArtistNames, dbVotes, now, orderWrites,
                   namesWrites, firstOrder>>
    /\ ledgerUnchanged /\ rosterUnchanged

\* index.js:353-356  the read rejects
ThrobCountFail(c, host) ==
    /\ CanStart(c)
    /\ host # ""
    /\ req' = [req EXCEPT ![c] =
                  [Response([IdleReq EXCEPT !.kind = "throb-count"], 500, <<>>)
                     EXCEPT !.host = host]]
    /\ UNCHANGED <<dbArtistOrder, dbArtistNames, dbVotes, now, orderWrites,
                   namesWrites, firstOrder>>
    /\ ledgerUnchanged /\ rosterUnchanged

-----------------------------------------------------------------------------
(* POST /clear-sheet, index.js:394-406 *)

\* index.js:394-401  the whole handler: VOTES!A1:Z is cleared, then 200
ClearSheet(c) ==
    /\ CanStart(c)
    /\ votesSheet' = [header |-> <<>>, rows |-> <<>>]
    /\ okSinceClear' = 0
    /\ req' = [req EXCEPT ![c] = Response([IdleReq EXCEPT !.kind = "clear-sheet"], 200, <<>>)]
    /\ UNCHANGED <<dbArtistOrder, dbArtistNames, dbVotes, now, orderWrites,
                   namesWrites, firstOrder>>
    /\ rosterUnchanged

\* index.js:402-405  the clear rejects
ClearSheetFail(c) ==
    /\ CanStart(c)
    /\ req' = [req EXCEPT ![c] = Response([IdleReq EXCEPT !.kind = "clear-sheet"], 500, <<>>)]
    /\ UNCHANGED <<dbArtistOrder, dbArtistNames, dbVotes, now, orderWrites,
                   namesWrites, firstOrder>>
    /\ ledgerUnchanged /\ rosterUnchanged

-----------------------------------------------------------------------------
(* The environment *)

\* guests join and leave in the key-value store, outside this server
GuestsChange ==
    /\ \E G \in SUBSET GuestIds : G # dbGuests /\ dbGuests' = G
    /\ UNCHANGED <<artistsSheet, dbArtistOrder, dbArtistNames, dbVotes, dbHost,
                   votesSheet, req, now, orderWrites, namesWrites,
                   firstOrder, okSinceClear>>

\* The ARTISTS sheets considered: two names with one key and a plain one; one
\* artist in two rows and a blank row; no data rows; a wrong header
MainSheet == <<ARTIST, <<"A", ".">>, <<"A", "#">>, <<"C">>>>

Sheets ==
    { MainSheet,
      <<ARTIST, <<"C", " ">>, <<>>, <<"C">>>>,
      <<ARTIST>>,
      <<<<"N", "A", "M", "E">>, <<"C">>>> }

\* An order as earlier revisions stored it: {safe, original} pairs in sheet order
LegacyOrder(sheet) ==
    LET data == MapRows(Tail(sheet))
    IN [i \in 1..Len(data) |-> PairEntry(data[i].safe, data[i].artist)]

\* Start-up: no vote recorded, the ledger empty, no request received
InitRest ==
    /\ dbArtistNames = <<>>
    /\ dbVotes = <<>>
    /\ dbGuests \in SUBSET GuestIds
    /\ dbHost = HostIds
    /\ votesSheet = [header |-> <<>>, rows |-> <<>>]
    /\ req = [c \in Clients |-> IdleReq]
    /\ now = 0
    /\ orderWrites = 0
    /\ namesWrites = 0
    /\ firstOrder = <<>>
    /\ okSinceClear = 0

\* Any of the sheets, the key-value store holding no order
InitInfo ==
    /\ artistsSheet \in Sheets
    /\ dbArtistOrder = <<>>
    /\ InitRest

\* The main sheet, the key-value store holding no order or an earlier one
Init ==
    /\ artistsSheet = MainSheet
    /\ dbArtistOrder \in {<<>>, LegacyOrder(MainSheet)}
    /\ InitRest

ArtistInfoStep(c) ==
    \/ ArtistInfoFetch(c)
    \/ ArtistInfoReadOrder(c)
    \/ ArtistInfoSetOrder(c)
    \/ ArtistInfoSetNames(c)
    \/ ArtistInfoFail(c)

RecordVotesStep(c) ==
    \/ RecordVotesReadOrder(c)
    \/ RecordVotesReadNames(c)
    \/ RecordVotesReadRoster(c)
    \/ RecordVotesSetVotes(c)
    \/ RecordVotesGetHeader(c)
    \/ RecordVotesSetHeader(c)
    \/ RecordVotesAppend(c)
    \/ RecordVotesFail(c)

Quiet == \A d \in Clients : Free(d)

\* /record-votes interleaved at its awaits, with clears and roster changes
Next ==
    \/ \E c \in Clients, body \in FewBodies : RecordVotesInvalid(c, body)
    \/ \E c \in Clients, body \in FewBodies : RecordVotesStart(c, body)
    \/ \E c \in Clients : RecordVotesStep(c)
    \/ \E c \in Clients : ClearSheet(c)
    \/ \E c \in Clients : ClearSheetFail(c)
    \/ GuestsChange

Spec == Init /\ [][Next]_vars

\* /record-votes, /throb-count and /clear-sheet one request at a time, each
\* arriving after the one before it was answered, over every body
NextSeq ==
    \/ \E c \in Clients, body \in Bodies : Quiet /\ RecordVotesInvalid(c, body)
    \/ \E c \in Clients, body \in Bodies : Quiet /\ RecordVotesStart(c, body)
    \/ \E c \in Clients, host \in HostParams : Quiet /\ ThrobCount(c, host)
    \/ \E c \in Clients, host \in HostParams : Quiet /\ ThrobCountFail(c, host)
    \/ \E c \in Clients : Quiet /\ ClearSheet(c)
    \/ \E c \in Clients : Quiet /\ ClearSheetFail(c)
    \/ \E c \in Clients : RecordVotesStep(c)
    \/ GuestsChange

SpecSeq == Init /\ [][NextSeq]_vars

\* /artist-info and /record-votes one request at a time, over every sheet
NextNames ==
    \/ \E c \in Clients : Quiet /\ ArtistInfoStart(c)
    \/ \E c \in Clients, body \in NameBodies : Quiet /\ RecordVotesStart(c, body)
    \/ \E c \in Clients : ArtistInfoStep(c)
    \/ \E c \in Clients : RecordVotesStep(c)

SpecNames == InitInfo /\ [][NextNames]_vars

\* /artist-info alone, interleaved, over every sheet
NextInfo ==
    \/ \E c \in Clients : ArtistInfoStart(c)
    \/ \E c \in Clients : ArtistInfoStep(c)

SpecInfo == InitInfo /\ [][NextInfo]_vars

-----------------------------------------------------------------------------
(* Claims *)

Answered(c, kind, status) ==
    req[c].pc = "done" /\ req[c].kind = kind /\ req[c].status = status

\* C1: with requests arriving one after the other, once a GET /artist-info has
\* succeeded the order it returned is the order the store holds, and every
\* /artist-info that arrived after it and succeeds returns that same order and
\* has written neither artistOrder nor artistNames; the order is written at most
\* once.
C1_GenerateOnceSequential ==
    /\ firstOrder # <<>> => dbArtistOrder = firstOrder[1]
    /\ orderWrites <= 1 /\ namesWrites <= 1
    /\ \A c \in Clients :
          Answered(c, "artist-info", 200) /\ req[c].after =>
              req[c].order = firstOrder[1] /\ ~req[c].wrote

\* C1 witness: on a store that held no order, an order of three keys was
\* generated and written once, and a later call has returned it
C1_Witness ==
    /\ orderWrites = 1 /\ namesWrites = 1
    /\ Len(dbArtistOrder) = 3
    /\ \E c \in Clients :
          Answered(c, "artist-info", 200) /\ req[c].after /\ req[c].order = dbArtistOrder

\* C2: however GET /artist-info requests interleave, the order is written to
\* artistOrder at most once and every answered request returns the same order.
C2_GenerateOnceConcurrent ==
    /\ orderWrites <= 1
    /\ \A c, d \in Clients :
          Answered(c, "artist-info", 200) /\ Answered(d, "artist-info", 200) =>
              req[c].order = req[d].order

\* The record of a submission is in the store and its handler still holds the
\* roster it read
Saved(c) == req[c].pc \in {"rv_getHeader", "rv_setHeader", "rv_append"}

\* A submission with a mapping of fewer votes than the roster it read has members
Partial(c) ==
    /\ Saved(c)
    /\ req[c].body.kind = "object"
    /\ Cardinality(DOMAIN req[c].body.votes) < Len(req[c].users)

\* C3 as claimed: the record persisted for a partial submission has exactly one
\* vote entry per roster participant, N in all, the submitted votes as
\* submitted and "no" for the participants missing from the payload.
C3_ExactlyRosterEntries ==
    \A c \in Clients :
        Partial(c) =>
            LET saved == dbVotes[req[c].artist].votes
                sent == req[c].body.votes
            IN /\ DOMAIN saved = Range(req[c].users)
               /\ Cardinality(DOMAIN saved) = Len(req[c].users)
               /\ \A u \in DOMAIN sent : saved[u] = sent[u]
               /\ \A u \in Range(req[c].users) \ DOMAIN sent : saved[u] = NO

\* C3 amended: the record persisted for a partial submission has one vote entry
\* per roster participant and one per id of the payload, the submitted votes as
\* submitted and "no" for the roster participants missing from the payload; it
\* has exactly N entries when every id of the payload is a roster participant.
C3_RosterFilled ==
    \A c \in Clients :
        Partial(c) =>
            LET saved == dbVotes[req[c].artist].votes
                sent == req[c].body.votes
            IN /\ DOMAIN saved = Range(req[c].users) \cup DOMAIN sent
               /\ \A u \in DOMAIN sent : saved[u] = sent[u]
               /\ \A u \in Range(req[c].users) \ DOMAIN sent : saved[u] = NO
               /\ DOMAIN sent \subseteq Range(req[c].users) =>
                      Cardinality(DOMAIN saved) = Len(req[c].users)

\* C3 witness: a roster of two, a payload with the vote of X alone, and the
\* record saved with both
C3_Witness ==
    \E c \in Clients :
        /\ Partial(c)
        /\ req[c].users = <<"X", "Y">>
        /\ DOMAIN req[c].body.votes = {"X"}
        /\ DOMAIN dbVotes[req[c].artist].votes = {"X", "Y"}
        /\ dbVotes[req[c].artist].votes["X"] = BALLOT
        /\ dbVotes[req[c].artist].votes["Y"] = NO

\* The handler of c answers 200 to a submission in this step
Succeeds(c) == req[c].pc = "rv_append" /\ req'[c].pc = "done" /\ req'[c].status = 200

\* C4: whenever POST /record-votes appends a row, the header row at that moment
\* is [TIMESTAMP, ARTIST, ...roster] for the roster that request read.
C4_HeaderInSync ==
    [][\A c \in Clients :
          Succeeds(c) => votesSheet'.header = <<"TIMESTAMP", "ARTIST">> \o req[c].users]_vars

\* The row a submission is to leave in the ledger
LedgerRow(r) ==
    [i \in 1..(Len(r.users) + 2) |->
        IF i = 1 THEN toISOString(r.ts)
        ELSE IF i = 2 THEN r.original
        ELSE r.votes[r.users[i - 2]]]

\* C5: the data rows are as many as the submissions answered 200 since the last
\* clear; a step in which a submission is answered 200 adds its row
\* [timestamp, originalName, roster-ordered votes] after the rows there were,
\* and every other step leaves the data rows as they were or, a clear, removes
\* them all.
C5_AppendOnly ==
    /\ [](Len(votesSheet.rows) = okSinceClear)
    /\ [][IF \E c \in Clients : Succeeds(c)
          THEN \E c \in Clients :
                  /\ Succeeds(c)
                  /\ votesSheet'.rows = votesSheet.rows \o <<LedgerRow(req[c])>>
          ELSE \/ votesSheet'.rows = votesSheet.rows
               \/ /\ votesSheet'.rows = <<>>
                  /\ \E c \in Clients : req'[c].kind = "clear-sheet"]_vars

\* C5 witness: two submissions for one artist answered 200, two rows for it
C5_Witness ==
    /\ okSinceClear = 2
    /\ Len(votesSheet.rows) = 2
    /\ votesSheet.rows[1][2] = votesSheet.rows[2][2]
    /\ votesSheet.rows[1][1] # votesSheet.rows[2][1]

\* A payload the claim calls invalid: artist absent or empty, votes absent or not
\* a mapping (a string, an array)
NotAMapping(body) == ~body.given \/ body.artist = <<>> \/ body.kind # "object"

\* C6: a POST /record-votes whose artist is absent or empty, or whose votes is
\* absent or is not a mapping, is answered 400 before any outbound call: no
\* handler is ever in flight with such a payload.
C6_InvalidPayloadRejected ==
    \A c \in Clients :
        req[c].kind = "record-votes" /\ req[c].pc # "done" => ~NotAMapping(req[c].body)

\* The name of a submission has been resolved
Resolved(c) ==
    req[c].pc \in {"rv_readRoster", "rv_setVotes", "rv_getHeader", "rv_setHeader", "rv_append"}

\* The {safe, original} entries of artistOrder for key k, by position
PairsOf(k) ==
    {i \in 1..Len(dbArtistOrder) : dbArtistOrder[i].obj /\ dbArtistOrder[i].safe = k}

\* The resolution the claim describes
ClaimedName(k) ==
    IF PairsOf(k) # {}
    THEN dbArtistOrder[CHOOSE i \in PairsOf(k) : \A j \in PairsOf(k) : i <= j].original
    ELSE IF k \in DOMAIN dbArtistNames THEN dbArtistNames[k]
    ELSE k

\* The display names of the ARTISTS sheet
RosterNames == {fetchGoogleSheet[i].artist : i \in 1..Len(fetchGoogleSheet)}

\* C7: the name resolved for key k is the original of the first {safe, original}
\* entry of artistOrder for k, else artistNames[k], else k; and for every display
\* name n of the roster, the name resolved for safeKey(n) is n whenever an order
\* entry or a name-map entry for safeKey(n) exists.
C7_NameResolution ==
    \A c \in Clients :
        Resolved(c) =>
            /\ req[c].original = ClaimedName(req[c].artist)
            /\ \A n \in RosterNames :
                  /\ safeKey(n) = req[c].artist
                  /\ PairsOf(req[c].artist) # {} \/ req[c].artist \in DOMAIN dbArtistNames
                  => req[c].original = n

InFlightVotes ==
    {"rv_readOrder", "rv_readNames", "rv_readRoster", "rv_setVotes", "rv_getHeader",
     "rv_setHeader", "rv_append"}

SheetCalls == {"rv_getHeader", "rv_setHeader", "rv_append"}

\* The handler of c answers 500 to a submission in this step
Fails(c) == req[c].pc \in InFlightVotes /\ req'[c].pc = "done" /\ req'[c].status = 500

\* The ledger holds a row with the timestamp of the submission c answered
HasRowOf(c) ==
    \E i \in 1..Len(votesSheet.rows) : votesSheet.rows[i][1] = toISOString(req[c].ts)

\* C8: the step in which a call of POST /record-votes fails answers 500 and
\* leaves the vote records and the ledger as the earlier steps left them (a
\* header written stays, the record written stays); no later step runs: the
\* ledger never holds a row for a submission answered 500, a submission that
\* failed at a spreadsheet call has its artist's record in the store, and one
\* that failed before left no record.
C8_PartialFailure ==
    /\ [](\A c \in Clients :
            Answered(c, "record-votes", 500) =>
                /\ ~HasRowOf(c)
                /\ req[c].at \in SheetCalls => req[c].artist \in DOMAIN dbVotes
                /\ req[c].at \notin SheetCalls =>
                       \A a \in DOMAIN dbVotes :
                           dbVotes[a].timestamp # toISOString(req[c].ts))
    /\ [][\A c \in Clients :
             Fails(c) =>
                 /\ dbVotes' = dbVotes
                 /\ votesSheet' = votesSheet
                 /\ req[c].pc \in SheetCalls =>
                        req[c].artist \in DOMAIN dbVotes']_vars

\* C8 witness: the only submission so far wrote its record and the header, its
\* append failed: 500, the header in place, no row
C8_Witness ==
    \E c \in Clients :
        /\ now = 1
        /\ Answered(c, "record-votes", 500)
        /\ req[c].at = "rv_append"
        /\ votesSheet.header # <<>>
        /\ votesSheet.rows = <<>>
        /\ req[c].artist \in DOMAIN dbVotes
        /\ dbVotes[req[c].artist].timestamp = toISOString(req[c].ts)

\* "yes" up to case and surrounding blanks
YesLike(cell) ==
    \E i \in 1..Len(cell) :
        /\ i + 2 <= Len(cell)
        /\ \A j \in 1..Len(cell) : (j < i \/ j > i + 2) => cell[j] = " "
        /\ cell[i] \in {"y", "Y"} /\ cell[i + 1] \in {"e", "E"} /\ cell[i + 2] \in {"s", "S"}

\* The first column of the header row that holds host
ColumnOf(host) ==
    CHOOSE i \in 1..Len(votesSheet.header) :
        /\ votesSheet.header[i] = host
        /\ \A j \in 1..(i - 1) : votesSheet.header[j] # host

\* C9: GET /throb-count with a non-empty host, when its read succeeds, answers
\* 404 if no cell of the header row equals host, and otherwise the number of
\* data rows that hold "yes", up to case and surrounding blanks, in the first
\* header column equal to host, a row too short for that column counting as
\* non-yes; the ledger is not modified.
C9_ThrobCount ==
    /\ [](\A c \in Clients :
            /\ req[c].pc = "done" /\ req[c].kind = "throb-count"
            /\ req[c].host # "" /\ req[c].status # 500
            => IF req[c].host \notin Range(votesSheet.header)
               THEN req[c].status = 404
               ELSE /\ req[c].status = 200
                    /\ req[c].count =
                         Cardinality({r \in 1..Len(votesSheet.rows) :
                            /\ ColumnOf(req[c].host) <= Len(votesSheet.rows[r])
                            /\ YesLike(votesSheet.rows[r][ColumnOf(req[c].host)])}))
    /\ [][\A c \in Clients :
             req'[c] # req[c] /\ req'[c].kind = "throb-count" =>
                 votesSheet' = votesSheet]_vars

\* C9 witness: two rows whose cell under X is " Yes", and the count 2 for X
C9_Witness ==
    \E c \in Clients :
        /\ req[c].pc = "done" /\ req[c].kind = "throb-count"
        /\ req[c].host = "X" /\ req[c].status = 200 /\ req[c].count = 2
        /\ Len(votesSheet.rows) = 2
        /\ votesSheet.rows[1][3] = BALLOT

\* The handler of c writes its record in this step
Saves(c) == req[c].pc = "rv_setVotes" /\ req'[c].pc = "rv_getHeader"

\* C10: with submissions one after the other, the step that saves a submission
\* for artist a leaves under a exactly {originalName, votes, timestamp} of that
\* submission, the votes being those sent and "no" for the rest of the roster
\* and nothing of the record there was, and leaves every other artist's record
\* as it was; no other step changes a record; so the record of a submission
\* answered 200 is the one in the store until the next submission.
C10_Overwrite ==
    /\ [](\A c \in Clients :
            Answered(c, "record-votes", 200) =>
                /\ req[c].artist \in DOMAIN dbVotes
                /\ dbVotes[req[c].artist].timestamp = toISOString(req[c].ts))
    /\ [][IF \E c \in Clients : Saves(c)
          THEN \E c \in Clients :
                  LET a == req[c].artist
                      sent == req[c].body.votes
                  IN /\ Saves(c)
                     /\ DOMAIN dbVotes' = DOMAIN dbVotes \cup {a}
                     /\ \A b \in DOMAIN dbVotes \ {a} : dbVotes'[b] = dbVotes[b]
                     /\ dbVotes'[a].originalName = req[c].original
                     /\ dbVotes'[a].timestamp = toISOString(req[c].ts)
                     /\ DOMAIN dbVotes'[a].votes = DOMAIN sent \cup Range(req[c].users)
                     /\ \A u \in DOMAIN dbVotes'[a].votes :
                           dbVotes'[a].votes[u] = IF u \in DOMAIN sent THEN sent[u] ELSE NO
          ELSE dbVotes' = dbVotes]_vars

\* C10 witness: a second submission for an artist answered 200, the first made
\* when Y was in the roster, the second when Y had left: the record holds no
\* vote of Y
C10_Witness ==
    \E c \in Clients :
        /\ Answered(c, "record-votes", 200)
        /\ now = 2
        /\ Len(votesSheet.rows) = 2
        /\ votesSheet.rows[1][2] = votesSheet.rows[2][2]
        /\ Len(votesSheet.rows[1]) = 4
        /\ "Y" \notin DOMAIN dbVotes[req[c].artist].votes

\* The distinct members of a list, in the order of their first occurrence
RECURSIVE FirstSeen(_)
FirstSeen(list) ==
    IF list = <<>> THEN <<>>
    ELSE LET rest == FirstSeen(SubSeq(list, 1, Len(list) - 1))
             last == list[Len(list)]
         IN IF last \in Range(rest) THEN rest ELSE Append(rest, last)

\* One key per distinct display name of the sheet, in first-seen order
DerivedKeys ==
    LET names == FirstSeen([i \in 1..Len(fetchGoogleSheet) |-> fetchGoogleSheet[i].artist])
    IN [i \in 1..Len(names) |-> safeKey(names[i])]

\* The times key k occurs in the persisted order
Occurrences(k) ==
    Cardinality({i \in 1..Len(dbArtistOrder) : dbArtistOrder[i].safe = k})

\* C11: an order that GET /artist-info generated and persisted is a permutation
\* of the list of one key per distinct display name of the sheet, and every key
\* occurs in it exactly once.
C11_KeysOnce ==
    orderWrites >= 1 =>
        /\ Len(dbArtistOrder) = Len(DerivedKeys)
        /\ \E f \in Bijections(Len(DerivedKeys)) :
               \A i \in 1..Len(DerivedKeys) : dbArtistOrder[i].safe = DerivedKeys[f[i]]
        /\ \A k \in Range(artistList) : Occurrences(k) = 1

\* Every key of the persisted order has a display name: its entry carries one, or
\* the persisted name map holds the key
Recoverable ==
    \A i \in 1..Len(dbArtistOrder) :
        dbArtistOrder[i].obj \/ dbArtistOrder[i].safe \in DOMAIN dbArtistNames

\* C12: with no request in flight, every key of a persisted, non-empty order is
\* carried by an order entry with an original or has an entry in the persisted
\* name map, and no vote record of a key in the order has the key itself as its
\* name unless the key is a display name of the sheet.
C12_NameRecoverable ==
    Quiet /\ dbArtistOrder # <<>> =>
        /\ Recoverable
        /\ \A a \in DOMAIN dbVotes :
              (\E i \in 1..Len(dbArtistOrder) : dbArtistOrder[i].safe = a) =>
                  \/ dbVotes[a].originalName # a
                  \/ \E j \in 1..Len(fetchGoogleSheet) : fetchGoogleSheet[j].artist = a

\* The data rows of the ledger that carry the name of the record of artist a
RowsOf(a) ==
    {i \in 1..Len(votesSheet.rows) : votesSheet.rows[i][2] = dbVotes[a].originalName}

\* The last of them
LastRowFor(a) == CHOOSE i \in RowsOf(a) : \A j \in RowsOf(a) : j <= i

\* C13: once every submission accepted has been answered 200 and its row is in
\* the ledger, with no request in flight, the vote record of an artist has the
\* timestamp of the last row appended for that artist, that timestamp is not
\* earlier than the timestamp of any row of the artist, and the votes of the
\* record are those of that row under the header's participant columns.
C13_RecordMatchesLedger ==
    Quiet /\ okSinceClear = now =>
        \A a \in DOMAIN dbVotes :
            RowsOf(a) # {} =>
                LET last == votesSheet.rows[LastRowFor(a)]
                    cols == IF Len(votesSheet.header) <= Len(last)
                            THEN Len(votesSheet.header) ELSE Len(last)
                IN /\ dbVotes[a].timestamp = last[1]
                   /\ \E t \in 1..now :
                         /\ dbVotes[a].timestamp = toISOString(t)
                         /\ \A i \in RowsOf(a) :
                               \E u \in 1..t : votesSheet.rows[i][1] = toISOString(u)
                   /\ \A i \in 3..cols :
                         /\ votesSheet.header[i] \in DOMAIN dbVotes[a].votes
                         /\ last[i] = dbVotes[a].votes[votesSheet.header[i]]

====
